---- MODULE Spec2Model ----
(***************************************************************************)
(* Model of the video wall: the grid controller (src/js/VideoGrid.js) and  *)
(* the tag registry (src/js/TagManager.js), driven by the handlers that    *)
(* src/js/main.js and the two classes register.                            *)
(*                                                                         *)
(* The DOM is the state: `cells` is the list of .video-cell elements of    *)
(* the grid in document order, one record per cell.                        *)
(***************************************************************************)
EXTENDS Integers, Sequences, FiniteSets, TLC

(* ---------------------------- bounds ----------------------------------- *)
\* the grid is never grown beyond this many cells
MaxCells == 9
\* object URLs handed out by URL.createObjectURL
MaxBlobs == 3
\* further object URLs handed out where only loads and layout changes run
MoreBlobs == 2
\* files in one batch (one file-picker selection or one drop)
MaxBatch == 3
\* playback positions 0..MaxTime
MaxTime == 1
\* cells that carry a tag at the same time
MaxTagged == 1

\* cells that show a tag menu at the same time
MaxMenus == 1
\* clock steps that make up the wait of debounce and throttle
WaitTicks == 2
\* calls and timer callbacks of the wrappers that are followed
MaxEvents == 4
\* cells the user acts on where every operation is run together
MaxFrameCell == 2
\* clock steps in the navbar's hide delay
DelayTicks == 4
\* timers the mousemove handler starts
MaxTimers == 4

(* ------------------------ program constants ---------------------------- *)
\* 100 * 1024 * 1024
MAX_FILE_SIZE == 104857600
\* the navbar shows while clientY is below this
PROXIMITY == 100
\* milliseconds before the navbar hides
HIDE_DELAY == 2000
\* the wait the constructor passes to debounce and to throttle (ms)
WAIT == 200

VARIABLES
    currentLayout,       \* "2x2" | "3x3"
    currentAspectRatio,  \* "16:9" | "9:16"
    cells,               \* the grid's .video-cell elements, in document order
    isPlaying,           \* VideoGrid.isPlaying
    playToggleText,      \* the text of the #playToggle button
    isExtended,          \* VideoGrid.isExtended
    tags,                \* TagManager.tags: insertion-ordered <<[name, color]>>
    dragSource,          \* closure variable of setupVideoSwap: 0 (null) or a cell index
    dropped,             \* the drag in progress has already been dropped
    nextBlob,            \* object URLs created so far
    emptySrcResolves,    \* does reading video.src with src="" yield the document URL
    dropdown,            \* the options of the navbar's tag dropdown, in document order
    clicked,             \* the dropdown option whose click handler ran last
    navHidden,           \* the navbar carries class 'hidden'
    lastY,               \* clientY of the most recent mousemove
    timers,              \* the pending timers of Navbar.setupAutoHide: {[id, left]}
    timeout,             \* closure variable of setupAutoHide: 0 (undefined) or a timer id
    nextTimer,           \* the id the next setTimeout returns
    debounceTimeout,     \* closure variable of debounce: 0 (undefined) or a timer id
    throttleTimeout,     \* closure variable of throttle: 0 (undefined, null) or a timer id
    wrapTimers,          \* the pending timers of the two wrappers: {[id, left, fn, args]}
    nextWrapTimer,       \* the id the next setTimeout of a wrapper returns
    trace                \* the calls of the wrappers and of func, in order

\* the state of the navbar's auto-hide
navVars == <<navHidden, lastY, timers, timeout, nextTimer>>

\* the state of the functions debounce and throttle returned
wrapVars == <<debounceTimeout, throttleTimeout, wrapTimers, nextWrapTimer, trace>>

\* the state of the grid and of the tag registry
gridVars == <<currentLayout, currentAspectRatio, cells, isPlaying, playToggleText,
              isExtended, tags, dragSource, dropped, nextBlob, emptySrcResolves,
              dropdown, clicked, wrapVars>>

vars == <<gridVars, navVars>>

(* ------------------------------ values --------------------------------- *)
\* values of a video element's src content attribute
NoAttr == 0 - 1      \* no src attribute
EmptyStr == 0        \* src=""
PageURL == 0 - 2     \* the document's own URL
Blobs == 1..(MaxBlobs + MoreBlobs) \* blob: URLs

\* getAttribute('data-tag') of a cell without the attribute (null)
NoTag == <<>>
\* tag names are strings, kept as tuples of characters
TagNames == { <<"x">>, <<"y", "\"">> }
\* hues generatePastelColor can draw (two of 0..359)
Hues == {0, 359}

\* the files offered to the grid: one that passes validation (exactly at the size
\* limit), an oversized one, a video of an unsupported type, and a non-video
ValidFiles == { [type |-> "video/mp4", size |-> MAX_FILE_SIZE] }
InvalidFiles == { [type |-> "video/webm", size |-> MAX_FILE_SIZE + 1],
                  [type |-> "video/quicktime", size |-> 1],
                  [type |-> "image/png", size |-> 1] }
Files == ValidFiles \cup InvalidFiles

\* file.type.startsWith('video/')
IsVideoType(type) == type \in {"video/mp4", "video/webm", "video/ogg", "video/quicktime"}

\* CONFIG.supportedFormats (config.js)
SupportedFormats == {"video/mp4", "video/webm", "video/ogg"}

\* CONFIG.layouts[layout][CONFIG.aspectRatios[ratio]] (config.js)
LayoutConfig(layout, ratio) ==
    IF layout = "2x2" THEN [cells |-> 4, columns |-> 2]
                      ELSE [cells |-> 9, columns |-> 3]

\* CONFIG.defaultLayout, CONFIG.defaultAspectRatio (config.js)
DefaultLayout == "2x2"
DefaultAspectRatio == "16:9"

\* Math.ceil(a / b) for a >= 0, b > 0
Ceil(a, b) == (a + b - 1) \div b

(* ------------------------------ cells ---------------------------------- *)
\* createVideoCell: an empty cell with no source, no tag, no drop listener, and the
\* '+' tag badge that addTagToCell appends (tagDisplay); it carries neither class
\* 'dragging' nor class 'dragover' and has no tag menu (menu: the tags its open tag
\* menu offers)
NewCell ==
    [src |-> NoAttr, isEmpty |-> TRUE, tag |-> NoTag, paused |-> TRUE,
     currentTime |-> 0, visible |-> TRUE, drops |-> 0, tagDisplay |-> TRUE,
     dragging |-> FALSE, dragover |-> FALSE, menu |-> <<>>]

\* reading video.src: the src attribute resolved against the document
SrcProp(c) ==
    IF c.src = NoAttr THEN EmptyStr
    ELSE IF c.src = EmptyStr THEN (IF emptySrcResolves THEN PageURL ELSE EmptyStr)
    ELSE c.src

\* assigning video.src: the attribute is set and the media element reloads (paused, at 0)
SetSrc(c, v) == [c EXCEPT !.src = v, !.paused = TRUE, !.currentTime = 0]

\* querySelectorAll('.video-cell'): every cell, empty or not
AllCells(cs) == [i \in 1..Len(cs) |-> i]

\* the indices of the cells matching selector '.video-cell.empty', in document order
EmptyCells(cs) == SelectSeq([i \in 1..Len(cs) |-> i], LAMBDA i : cs[i].isEmpty)

\* Array.prototype.indexOf, 0-based, -1 when absent
IndexOf(s, x) ==
    IF \E k \in 1..Len(s) : s[k] = x
    THEN (CHOOSE k \in 1..Len(s) : s[k] = x /\ \A j \in 1..(k - 1) : s[j] # x) - 1
    ELSE 0 - 1

\* initGrid: layoutConfig.cells new cells replace the grid's content
InitGrid(layout, ratio) == [i \in 1..LayoutConfig(layout, ratio).cells |-> NewCell]

\* extendGrid appending one cell per additional video, not whole rows
ExtendGridExact(cs, layout, ratio, additionalVideos) ==
    cs \o [i \in 1..additionalVideos |-> NewCell]

\* extendGrid(additionalVideos): whole rows of new cells are appended
ExtendGrid(cs, layout, ratio, additionalVideos) ==
    LET cellsPerRow == LayoutConfig(layout, ratio).columns
        neededCells == Ceil(additionalVideos, cellsPerRow) * cellsPerRow
    IN  cs \o [i \in 1..neededCells |-> NewCell]

\* setupDragAndDrop: every cell now in the grid gets one more drop listener
SetupDragAndDrop(cs) == [i \in 1..Len(cs) |-> [cs[i] EXCEPT !.drops = @ + 1]]

(* --------------------------- loading files ----------------------------- *)
\* addVideoToCell(cell, file): [cells, blob, threw, caught]
\*   threw:  an error left the function;  caught: showErrorMessage was called
AddVideoToCell(cs, i, file, blob) ==
    IF file.type \notin {"video/mp4", "video/webm", "video/ogg"}
    THEN [cells |-> cs, blob |-> blob, threw |-> TRUE, caught |-> FALSE]
    ELSE IF file.type \notin SupportedFormats \/ file.size > MAX_FILE_SIZE
    THEN [cells |-> cs, blob |-> blob, threw |-> FALSE, caught |-> TRUE]
    ELSE [cells |-> [cs EXCEPT ![i] = [SetSrc(cs[i], blob + 1) EXCEPT !.isEmpty = FALSE]],
          blob |-> blob + 1, threw |-> FALSE, caught |-> FALSE]

\* the files.forEach loop of addMultipleVideos from file k on; an error thrown by
\* addVideoToCell ends the loop.  calls: one record per addVideoToCell call
RECURSIVE LoadFiles(_, _, _, _, _, _, _)
LoadFiles(cs, emptyCells, idx, files, k, blob, calls) ==
    IF k > Len(files)
    THEN [cells |-> cs, blob |-> blob, raised |-> FALSE, calls |-> calls]
    ELSE IF IsVideoType(files[k].type) /\ idx >= 0 /\ idx < Len(emptyCells)
    THEN LET r == AddVideoToCell(cs, emptyCells[idx + 1], files[k], blob)
             c == [cell |-> emptyCells[idx + 1], file |-> k,
                   threw |-> r.threw, caught |-> r.caught]
         IN  IF r.threw
             THEN [cells |-> r.cells, blob |-> r.blob, raised |-> TRUE,
                   calls |-> Append(calls, c)]
             ELSE LoadFiles(r.cells, emptyCells, idx + 1, files, k + 1, r.blob,
                            Append(calls, c))
    ELSE LoadFiles(cs, emptyCells, idx, files, k + 1, blob, calls)

\* addMultipleVideos(files, startCell): [cells, extended, blob, raised, calls]
AddMultipleVideos(cs, layout, ratio, files, startCell, blob) ==
    LET emptyCells == EmptyCells(cs)
        currentCellIndex == IndexOf(emptyCells, startCell)
        totalNeededCells == currentCellIndex + Len(files)
        extend == totalNeededCells > Len(emptyCells)
        grown == IF extend THEN ExtendGrid(cs, layout, ratio, Len(files)) ELSE cs
        r == LoadFiles(grown, EmptyCells(grown), currentCellIndex, files, 1, blob, <<>>)
    IN  [cells |-> r.cells, extended |-> extend, blob |-> r.blob,
         raised |-> r.raised, calls |-> r.calls]

\* the batches offered: 1..MaxBatch files of any kind
Batches == UNION { [1..n -> Files] : n \in 1..MaxBatch }
\* the batches of files of a supported type, within the size limit or not
QuietBatches ==
    UNION { [1..n -> {f \in Files : f.type \in SupportedFormats}] : n \in 1..MaxBatch }
\* the batches of a single file that passes validation
OneFile == { <<f>> : f \in ValidFiles }

\* no drag is in progress
Idle == dragSource = 0

\* the call addMultipleVideos(files, cell i) in the current state
LoadCall(i, files) ==
    AddMultipleVideos(cells, currentLayout, currentAspectRatio, files, i, nextBlob)

\* the outcome of a batch stays within the bounds of the model
WithinBounds(r) == Len(r.cells) <= MaxCells /\ r.blob <= MaxBlobs

\* the add button of cell i can be clicked: it is shown on empty cells
CanPick(i) == Idle /\ cells[i].isEmpty /\ cells[i].visible

\* files can be dropped on cell i: the cell has a drop listener (setupDragAndDrop)
CanDrop(i) == Idle /\ cells[i].visible /\ cells[i].drops > 0

\* click on a cell's add button, then the file input's change event (openFileInput)
PickFiles(i, files) ==
    /\ CanPick(i)
    /\ LET r == LoadCall(i, files)
       IN  /\ WithinBounds(r)
           /\ cells' = r.cells
           /\ isExtended' = (isExtended \/ r.extended)
           /\ nextBlob' = r.blob
    /\ UNCHANGED <<currentLayout, currentAspectRatio, isPlaying, playToggleText, tags, dragSource,
                   dropped, emptySrcResolves,
                   dropdown, clicked, navVars, wrapVars>>

\* files dropped on a cell from outside: the cell's drop listener calls
\* addMultipleVideos (setupDragAndDrop); the grid's own drop listener (setupVideoSwap)
\* returns at once, no drag source being recorded
FileDrop(i, files) ==
    /\ CanDrop(i)
    /\ LET r == LoadCall(i, files)
       IN  /\ WithinBounds(r)
           /\ cells' = [r.cells EXCEPT ![i].dragover = FALSE]
           /\ isExtended' = (isExtended \/ r.extended)
           /\ nextBlob' = r.blob
    /\ UNCHANGED <<currentLayout, currentAspectRatio, isPlaying, playToggleText, tags, dragSource,
                   dropped, emptySrcResolves,
                   dropdown, clicked, navVars, wrapVars>>

\* the batches of files that all pass validation
ValidBatches == UNION { [1..n -> ValidFiles] : n \in 1..MaxBatch }

\* addMultipleVideos(files, cell i) with the larger supply of object URLs
\*   dropOn: the call comes from the drop listener, which first removes 'dragover'
LoadMore(i, files, dropOn) ==
    /\ LET r == LoadCall(i, files)
       IN  /\ Len(r.cells) <= MaxCells /\ r.blob <= MaxBlobs + MoreBlobs
           /\ cells' = IF dropOn THEN [r.cells EXCEPT ![i].dragover = FALSE] ELSE r.cells
           /\ isExtended' = (isExtended \/ r.extended)
           /\ nextBlob' = r.blob
    /\ UNCHANGED <<currentLayout, currentAspectRatio, isPlaying, playToggleText, tags,
                   dragSource, dropped, emptySrcResolves, dropdown, clicked, navVars, wrapVars>>

\* openFileInput and the drop listener of setupDragAndDrop, with that supply
PickFilesMore(i, files) == CanPick(i) /\ LoadMore(i, files, FALSE)
FileDropMore(i, files) == CanDrop(i) /\ LoadMore(i, files, TRUE)

(* ------------------------- layout and aspect --------------------------- *)
\* saveVideoStates: one record per cell, in document order
SaveVideoStates(cs) ==
    [i \in 1..Len(cs) |-> [src |-> SrcProp(cs[i]), isEmpty |-> cs[i].isEmpty,
                           tag |-> cs[i].tag, isPlaying |-> ~cs[i].paused]]

\* applyTag(cell, tag): [cell, threw]; the attribute is set before the badge is
\* touched, and the cell's tag menu is hidden last
ApplyTag(c, tag) ==
    [cell |-> [c EXCEPT !.tag = tag, !.menu = IF c.tagDisplay THEN <<>> ELSE @],
     threw |-> ~c.tagDisplay]

\* restoreVideoStates(videoStates) on the freshly built cells
RestoreVideoStates(newCells, videoStates) ==
    [i \in 1..Len(newCells) |->
        IF i <= Len(videoStates) /\ videoStates[i].src # EmptyStr
        THEN LET c == [SetSrc(newCells[i], videoStates[i].src) EXCEPT !.isEmpty = FALSE]
             IN  IF videoStates[i].tag # NoTag THEN ApplyTag(c, videoStates[i].tag).cell
                                                ELSE c
        ELSE [newCells[i] EXCEPT !.isEmpty = TRUE]]

\* the body shared by toggleLayout and toggleAspectRatio once the layout or the
\* ratio has been switched: [cells, extended]
Relayout(cs, layout, ratio) ==
    LET videoStates == SaveVideoStates(cs)
        filledCells == Cardinality({i \in 1..Len(cs) : ~cs[i].isEmpty})
        layoutConfig == LayoutConfig(layout, ratio)
        neededRows == Ceil(filledCells, layoutConfig.columns)
        totalNeededCells == neededRows * layoutConfig.columns
        extend == totalNeededCells > layoutConfig.cells
        fresh == InitGrid(layout, ratio)
        grown == IF extend
                 THEN ExtendGrid(fresh, layout, ratio, totalNeededCells - layoutConfig.cells)
                 ELSE fresh
    IN  [cells |-> RestoreVideoStates(SetupDragAndDrop(grown), videoStates),
         extended |-> extend]

\* toggleLayout (click on #layoutToggle)
ToggleLayout ==
    /\ Idle
    /\ LET layout == IF currentLayout = "2x2" THEN "3x3" ELSE "2x2"
           r == Relayout(cells, layout, currentAspectRatio)
       IN  /\ Len(r.cells) <= MaxCells
           /\ currentLayout' = layout
           /\ cells' = r.cells
           /\ isExtended' = (isExtended \/ r.extended)
    /\ UNCHANGED <<currentAspectRatio, isPlaying, playToggleText, tags, dragSource, dropped, nextBlob,
                   emptySrcResolves,
                   dropdown, clicked, navVars, wrapVars>>

\* toggleAspectRatio (click on #aspectToggle)
ToggleAspectRatio ==
    /\ Idle
    /\ LET ratio == IF currentAspectRatio = "16:9" THEN "9:16" ELSE "16:9"
           r == Relayout(cells, currentLayout, ratio)
       IN  /\ Len(r.cells) <= MaxCells
           /\ currentAspectRatio' = ratio
           /\ cells' = r.cells
           /\ isExtended' = (isExtended \/ r.extended)
    /\ UNCHANGED <<currentLayout, isPlaying, playToggleText, tags, dragSource, dropped, nextBlob,
                   emptySrcResolves,
                   dropdown, clicked, navVars, wrapVars>>

(* ------------------------------ play ----------------------------------- *)
\* togglePlayAll with the flag flipped after the videos were played or paused
TogglePlayAllOpStale(cs, playing) ==
    [cells |-> [i \in 1..Len(cs) |->
                    IF cs[i].src # NoAttr THEN [cs[i] EXCEPT !.paused = ~playing]
                                          ELSE cs[i]],
     isPlaying |-> ~playing, ret |-> ~playing]

\* togglePlayAll: [cells, isPlaying, ret]; the videos are those matching 'video[src]'
TogglePlayAllOp(cs, playing) ==
    LET now == ~playing
    IN  [cells |-> [i \in 1..Len(cs) |->
                        IF cs[i].src # NoAttr THEN [cs[i] EXCEPT !.paused = ~now]
                                              ELSE cs[i]],
         isPlaying |-> now, ret |-> now]

\* click on #playToggle (main.js): the button reads "pause" when togglePlayAll
\* returned true and "play" otherwise
TogglePlayAll ==
    /\ Idle
    /\ LET r == TogglePlayAllOp(cells, isPlaying)
       IN  /\ cells' = r.cells
           /\ isPlaying' = r.isPlaying
           /\ playToggleText' = IF r.ret THEN "pause" ELSE "play"
    /\ UNCHANGED <<currentLayout, currentAspectRatio, isExtended, tags, dragSource,
                   dropped, nextBlob, emptySrcResolves,
                   dropdown, clicked, navVars, wrapVars>>

\* a playing video advances
Tick(i) ==
    /\ cells[i].src \in Blobs /\ ~cells[i].paused /\ cells[i].currentTime < MaxTime
    /\ cells' = [cells EXCEPT ![i].currentTime = @ + 1]
    /\ UNCHANGED <<currentLayout, currentAspectRatio, isPlaying, playToggleText, isExtended, tags,
                   dragSource, dropped, nextBlob, emptySrcResolves,
                   dropdown, clicked, navVars, wrapVars>>

(* ---------------------------- resources -------------------------------- *)
\* releaseVideoResources on the cells: every video is paused, gets src="" and is
\* reloaded; the cells' classes are not touched
ReleaseVideoResourcesOp(cs) == [i \in 1..Len(cs) |-> SetSrc(cs[i], EmptyStr)]

\* a call of videoGrid.releaseVideoResources()
ReleaseVideoResources ==
    /\ cells' = ReleaseVideoResourcesOp(cells)
    /\ UNCHANGED <<currentLayout, currentAspectRatio, isPlaying, playToggleText, isExtended,
                   tags, dragSource, dropped, nextBlob, emptySrcResolves, dropdown, clicked,
                   navVars, wrapVars>>

(* ------------------------------ swap ----------------------------------- *)
\* getCellState(cell)
GetCellState(c) ==
    [src |-> SrcProp(c), currentTime |-> c.currentTime, isPlaying |-> ~c.paused,
     isEmpty |-> c.isEmpty]

\* applyCellState without the assignment to video.currentTime
ApplyCellStateNoSeek(c, state) ==
    LET v == SetSrc(c, state.src)
    IN  IF state.isEmpty
        THEN [v EXCEPT !.isEmpty = TRUE]
        ELSE [v EXCEPT !.isEmpty = FALSE,
                       !.paused = IF state.isPlaying THEN FALSE ELSE @]

\* applyCellState(cell, state)
ApplyCellState(c, state) ==
    LET v == [SetSrc(c, state.src) EXCEPT !.currentTime = state.currentTime]
    IN  IF state.isEmpty
        THEN [v EXCEPT !.isEmpty = TRUE]
        ELSE [v EXCEPT !.isEmpty = FALSE,
                       !.paused = IF state.isPlaying THEN FALSE ELSE @]

\* the data-tag update of the drop handler: each cell takes the other's tag, when
\* the other has one
SwapTags(cs, a, b) ==
    LET sourceTag == cs[a].tag
        targetTag == cs[b].tag
    IN  [cs EXCEPT ![b].tag = IF sourceTag # NoTag THEN sourceTag ELSE @,
                   ![a].tag = IF targetTag # NoTag THEN targetTag ELSE @]

\* the drop handler of setupVideoSwap past its guard: a is the drag source, b the target
SwapCells(cs, a, b) ==
    LET sourceState == GetCellState(cs[a])
        targetState == GetCellState(cs[b])
        swapped == [cs EXCEPT ![a] = ApplyCellState(cs[a], targetState),
                              ![b] = ApplyCellState(cs[b], sourceState)]
        tagged == SwapTags(cs, a, b)
    IN  [i \in 1..Len(cs) |-> [swapped[i] EXCEPT !.tag = tagged[i].tag]]

\* dragstart on cell a: cancelled unless the cell's video has a source; otherwise
\* the cell is recorded as the drag source and marked 'dragging'
DragStart(a) ==
    /\ Idle
    /\ cells[a].visible
    /\ LET started == SrcProp(cells[a]) # EmptyStr
       IN  /\ dragSource' = IF started THEN a ELSE 0
           /\ cells' = IF started THEN [cells EXCEPT ![a].dragging = TRUE] ELSE cells
    /\ dropped' = FALSE
    /\ UNCHANGED <<currentLayout, currentAspectRatio, isPlaying, playToggleText, isExtended,
                   tags, nextBlob, emptySrcResolves, dropdown, clicked, navVars, wrapVars>>

\* is the cell marked by a dragover event on it: the grid's listener marks every
\* cell but the drag source, the cell's own listener (setupDragAndDrop) marks any cell
Marks(cs, b) == b # dragSource \/ cs[b].drops > 0

\* dragover on cell b, of the dragged cell or of something dragged in from outside
DragOver(b) ==
    /\ ~dropped
    /\ cells[b].visible
    /\ cells' = [cells EXCEPT ![b].dragover = IF Marks(cells, b) THEN TRUE ELSE @]
    /\ UNCHANGED <<currentLayout, currentAspectRatio, isPlaying, playToggleText, isExtended,
                   tags, dragSource, dropped, nextBlob, emptySrcResolves, dropdown, clicked,
                   navVars, wrapVars>>

\* dragleave on cell b
DragLeave(b) ==
    /\ ~dropped
    /\ cells[b].visible
    /\ cells' = [cells EXCEPT ![b].dragover = IF Marks(cells, b) THEN FALSE ELSE @]
    /\ UNCHANGED <<currentLayout, currentAspectRatio, isPlaying, playToggleText, isExtended,
                   tags, dragSource, dropped, nextBlob, emptySrcResolves, dropdown, clicked,
                   navVars, wrapVars>>

\* the drop listener a cell got from setupDragAndDrop, for a drop that carries no
\* file: the cell's 'dragover' mark is removed
CellDrop(cs, b) == [cs EXCEPT ![b].dragover = IF cs[b].drops > 0 THEN FALSE ELSE @]

\* drop of the dragged cell on cell b: the cell's listener, then the grid's, which
\* returns at once when b is the drag source and otherwise swaps and clears the marks
Drop(b) ==
    /\ dragSource # 0 /\ ~dropped
    /\ cells[b].visible
    /\ cells' = IF b = dragSource
                THEN CellDrop(cells, b)
                ELSE [SwapCells(CellDrop(cells, b), dragSource, b)
                         EXCEPT ![b].dragover = FALSE, ![dragSource].dragging = FALSE]
    /\ dropped' = TRUE
    /\ UNCHANGED <<currentLayout, currentAspectRatio, isPlaying, playToggleText, isExtended, tags,
                   dragSource, nextBlob, emptySrcResolves,
                   dropdown, clicked, navVars, wrapVars>>

\* drop on cell b of something that is not a file while no cell is being dragged:
\* the grid's listener returns at once, no drag source being recorded
ForeignDrop(b) ==
    /\ Idle
    /\ cells[b].visible
    /\ cells' = CellDrop(cells, b)
    /\ UNCHANGED <<currentLayout, currentAspectRatio, isPlaying, playToggleText, isExtended,
                   tags, dragSource, dropped, nextBlob, emptySrcResolves, dropdown, clicked,
                   navVars, wrapVars>>

\* dragend: the marks are removed and the drag source is forgotten
DragEnd ==
    /\ dragSource # 0
    /\ cells' = [i \in 1..Len(cells) |->
                    [cells[i] EXCEPT !.dragover = FALSE,
                                     !.dragging = IF i = dragSource THEN FALSE ELSE @]]
    /\ dragSource' = 0
    /\ dropped' = FALSE
    /\ UNCHANGED <<currentLayout, currentAspectRatio, isPlaying, playToggleText, isExtended,
                   tags, nextBlob, emptySrcResolves, dropdown, clicked, navVars, wrapVars>>

(* ------------------------------ tags ----------------------------------- *)
\* the keys of the registry, and Map.prototype.has / get
Names(reg) == { reg[k].name : k \in 1..Len(reg) }
Has(reg, name) == name \in Names(reg)
Get(reg, name) == reg[CHOOSE k \in 1..Len(reg) : reg[k].name = name].color

\* addTag without the has() test: Map.prototype.set replaces the color of a known key
AddTagAlways(reg, name, hue) ==
    LET reg2 == IF ~Has(reg, name)
                THEN Append(reg, [name |-> name, color |-> hue])
                ELSE [k \in 1..Len(reg) |->
                         IF reg[k].name = name THEN [reg[k] EXCEPT !.color = hue]
                                               ELSE reg[k]]
    IN  [tags |-> reg2, ret |-> Get(reg2, name)]

\* addTag(tag): [tags, ret]; hue is what generatePastelColor draws if it is called
AddTag(reg, name, hue) ==
    LET reg2 == IF ~Has(reg, name) THEN Append(reg, [name |-> name, color |-> hue])
                                   ELSE reg
    IN  [tags |-> reg2, ret |-> Get(reg2, name)]

\* updateDropdown: the dropdown is rebuilt, one option per registry entry, in order
UpdateDropdown(reg) == [k \in 1..Len(reg) |-> reg[k].name]

\* the dropdown after addTag(tag): rebuilt only when the tag is new
AddTagDropdown(reg, name, hue, options) ==
    IF ~Has(reg, name) THEN UpdateDropdown(AddTag(reg, name, hue).tags) ELSE options

\* Map.prototype.delete
Delete(reg, name) == SelectSeq(reg, LAMBDA e : e.name # name)

\* does `.video-cell[data-tag="${tag}"]` parse as a selector: a quotation mark
\* in the tag ends the attribute value early and leaves text no selector allows
SelectorParses(name) == \A k \in 1..Len(name) : name[k] # "\""

\* deleteTag(tag): [tags, cells, threw]
DeleteTag(reg, cs, name) ==
    IF SelectorParses(name)
    THEN [tags |-> Delete(reg, name),
          cells |-> [i \in 1..Len(cs) |->
                        IF cs[i].tag = name
                        THEN [cs[i] EXCEPT !.tag = NoTag, !.tagDisplay = FALSE]
                        ELSE cs[i]],
          threw |-> FALSE]
    ELSE [tags |-> Delete(reg, name), cells |-> cs, threw |-> TRUE]

\* the sentinel of filterVideos
All == <<"a", "l", "l">>

\* filterVideos without the sentinel
FilterVideosNoSentinel(cs, tag) ==
    [i \in 1..Len(cs) |-> [cs[i] EXCEPT !.visible = (cs[i].tag = tag)]]

\* filterVideos(tag)
FilterVideos(cs, tag) ==
    [i \in 1..Len(cs) |-> [cs[i] EXCEPT !.visible = (tag = All \/ cs[i].tag = tag)]]

\* no more than MaxTagged cells carry a tag once cell i has one
TagBudget(i) ==
    Cardinality({j \in 1..Len(cells) : cells[j].tag # NoTag} \cup {i}) <= MaxTagged

\* '+ new tag' in the tag menu of cell i (createNewTag): the user types `name`
CreateNewTag(i, name, hue) ==
    /\ Idle
    /\ cells[i].visible /\ cells[i].tagDisplay
    /\ TagBudget(i)
    /\ LET r == AddTag(tags, name, hue)
           t == ApplyTag(cells[i], name)
       IN  /\ tags' = r.tags
           /\ dropdown' = AddTagDropdown(tags, name, hue, dropdown)
           /\ cells' = [cells EXCEPT ![i] = t.cell]
    /\ UNCHANGED <<currentLayout, currentAspectRatio, isPlaying, playToggleText, isExtended,
                   dragSource, dropped, nextBlob, emptySrcResolves, clicked, navVars, wrapVars>>

\* an existing tag picked in the tag menu of cell i (showTagMenu, applyTag)
PickTag(i, name) ==
    /\ Idle
    /\ cells[i].visible /\ cells[i].tagDisplay
    /\ Has(tags, name)
    /\ TagBudget(i)
    /\ LET t == ApplyTag(cells[i], name)
       IN  /\ cells' = [cells EXCEPT ![i] = t.cell]
    /\ UNCHANGED <<currentLayout, currentAspectRatio, isPlaying, playToggleText, isExtended, tags,
                   dragSource, dropped, nextBlob, emptySrcResolves,
                   dropdown, clicked, navVars, wrapVars>>

\* no more than MaxMenus cells show a tag menu with tags in it once cell i does
MenuBudget(i) ==
    Cardinality({j \in 1..Len(cells) : cells[j].menu # <<>>} \cup {i}) <= MaxMenus

\* click on the tag badge of cell i (showTagMenu): the cell's menu is rebuilt with
\* one option per tag the registry holds now
ShowTagMenu(i) ==
    /\ Idle
    /\ cells[i].visible /\ cells[i].tagDisplay
    /\ tags # <<>> => MenuBudget(i)
    /\ cells' = [cells EXCEPT ![i].menu = UpdateDropdown(tags)]
    /\ UNCHANGED <<currentLayout, currentAspectRatio, isPlaying, playToggleText, isExtended,
                   tags, dragSource, dropped, nextBlob, emptySrcResolves, dropdown, clicked,
                   navVars, wrapVars>>

\* click on option k of the open tag menu of cell i: applyTag(cell, tag) with the
\* tag the option was built for
ClickMenuOption(i, k) ==
    /\ Idle
    /\ cells[i].visible
    /\ k \in 1..Len(cells[i].menu)
    /\ TagBudget(i)
    /\ cells' = [cells EXCEPT ![i] = ApplyTag(cells[i], cells[i].menu[k]).cell]
    /\ UNCHANGED <<currentLayout, currentAspectRatio, isPlaying, playToggleText, isExtended,
                   tags, dragSource, dropped, nextBlob, emptySrcResolves, dropdown, clicked,
                   navVars, wrapVars>>

\* click outside the open tag menu of cell i (hideMenu): the menu is removed
CloseTagMenu(i) ==
    /\ Idle
    /\ cells[i].menu # <<>>
    /\ cells' = [cells EXCEPT ![i].menu = <<>>]
    /\ UNCHANGED <<currentLayout, currentAspectRatio, isPlaying, playToggleText, isExtended,
                   tags, dragSource, dropped, nextBlob, emptySrcResolves, dropdown, clicked,
                   navVars, wrapVars>>

\* tagManager.addTag(name)
AddTagCall(name, hue) ==
    /\ Idle
    /\ LET r == AddTag(tags, name, hue)
       IN  /\ tags' = r.tags
           /\ dropdown' = AddTagDropdown(tags, name, hue, dropdown)
    /\ UNCHANGED <<currentLayout, currentAspectRatio, cells, isPlaying, playToggleText, isExtended,
                   dragSource, dropped, nextBlob, emptySrcResolves, clicked, navVars, wrapVars>>

\* tagManager.deleteTag(name)
DeleteTagCall(name) ==
    /\ Idle
    /\ LET r == DeleteTag(tags, cells, name)
       IN  /\ tags' = r.tags
           /\ dropdown' = UpdateDropdown(r.tags)
           /\ cells' = r.cells
    /\ UNCHANGED <<currentLayout, currentAspectRatio, isPlaying, playToggleText, isExtended,
                   dragSource, dropped, nextBlob, emptySrcResolves, clicked, navVars, wrapVars>>

\* tagManager.filterVideos(tag)
FilterVideosCall(tag) ==
    /\ Idle
    /\ cells' = FilterVideos(cells, tag)
    /\ UNCHANGED <<currentLayout, currentAspectRatio, isPlaying, playToggleText, isExtended, tags,
                   dragSource, dropped, nextBlob, emptySrcResolves,
                   dropdown, clicked, navVars, wrapVars>>

\* the click listener updateDropdown gives an option: it calls this.filterByTag,
\* which TagManager does not define, so the call raises a TypeError before any cell
\* is touched: [cells, threw]
FilterByTagClick(cs, tag) == [cells |-> cs, threw |-> TRUE]

\* click on option k of the navbar's tag dropdown
ClickDropdownOption(k) ==
    /\ Idle
    /\ k \in 1..Len(dropdown)
    /\ cells' = FilterByTagClick(cells, dropdown[k]).cells
    /\ clicked' = dropdown[k]
    /\ UNCHANGED <<currentLayout, currentAspectRatio, isPlaying, playToggleText, isExtended,
                   tags, dragSource, dropped, nextBlob, emptySrcResolves, dropdown, navVars, wrapVars>>

(* ------------------------------ navbar --------------------------------- *)
\* no mousemove has been reported yet
NoMove == 0 - 1
\* pointer positions a mousemove reports: at the top, and on both sides of the threshold
PointerYs == {0, PROXIMITY - 1, PROXIMITY, PROXIMITY + 1}
\* the timer setupAutoHide starts at page load; its id is never stored
LoadTimer == 1
\* the time that passes in one step of the clock
TickMs == Ceil(HIDE_DELAY, DelayTicks)

\* clearTimeout(id): no effect when id names no pending timer
ClearTimeout(ts, id) == {t \in ts : t.id # id}

\* the mousemove handler without clearTimeout before the new timer is set
MouseMoveOpNoClear(ts, handle, next, y) ==
    IF y < PROXIMITY
    THEN [timers |-> ClearTimeout(ts, handle), timeout |-> handle, nextTimer |-> next,
          shown |-> TRUE]
    ELSE [timers |-> ts \cup {[id |-> next, left |-> HIDE_DELAY]},
          timeout |-> next, nextTimer |-> next + 1, shown |-> FALSE]

\* the mousemove handler of setupAutoHide: [timers, timeout, nextTimer, shown]
\*   shown: class 'hidden' was removed from the navbar
MouseMoveOp(ts, handle, next, y) ==
    IF y < PROXIMITY
    THEN [timers |-> ClearTimeout(ts, handle), timeout |-> handle, nextTimer |-> next,
          shown |-> TRUE]
    ELSE [timers |-> ClearTimeout(ts, handle) \cup {[id |-> next, left |-> HIDE_DELAY]},
          timeout |-> next, nextTimer |-> next + 1, shown |-> FALSE]

\* mousemove at clientY = y
MouseMove(y) ==
    /\ y >= PROXIMITY => nextTimer <= MaxTimers
    /\ LET r == MouseMoveOp(timers, timeout, nextTimer, y)
       IN  /\ timers' = r.timers
           /\ timeout' = r.timeout
           /\ nextTimer' = r.nextTimer
           /\ navHidden' = IF r.shown THEN FALSE ELSE navHidden
    /\ lastY' = y
    /\ UNCHANGED gridVars

\* time passes while no pending timer is due
Advance ==
    /\ timers # {}
    /\ \A t \in timers : t.left > 0
    /\ timers' = {[t EXCEPT !.left = IF @ > TickMs THEN @ - TickMs ELSE 0] : t \in timers}
    /\ UNCHANGED <<gridVars, navHidden, lastY, timeout, nextTimer>>

\* a due timer fires, the oldest first: its callback adds class 'hidden'
Fire(id) ==
    /\ \E t \in timers :
          /\ t.id = id /\ t.left = 0
          /\ \A u \in timers : u.left = 0 => u.id >= id
          /\ timers' = timers \ {t}
    /\ navHidden' = TRUE
    /\ UNCHANGED <<gridVars, lastY, timeout, nextTimer>>

\* the Navbar constructor: the navbar is shown and the load timer is pending
NavbarInit ==
    /\ navHidden = FALSE
    /\ lastY = NoMove
    /\ timers = {[id |-> LoadTimer, left |-> HIDE_DELAY]}
    /\ timeout = 0
    /\ nextTimer = LoadTimer + 1

(* ----------------------- debounce and throttle ------------------------- *)
\* the arguments the wrapped functions are called with
Args == {1, 2}
\* the time that passes in one step of the wrappers' clock
WaitTickMs == Ceil(WAIT, WaitTicks)

\* the pending timers of wrapper fn
Pending(fn) == {t \in wrapTimers : t.fn = fn}

\* the function debounce returns, setting the new timer without clearTimeout
DebounceOpNoClear(ts, handle, next, args) ==
    [timers |-> ts \cup {[id |-> next, left |-> WAIT, fn |-> "debounce", args |-> args]},
     timeout |-> next, nextTimer |-> next + 1]

\* the function debounce returns (executedFunction): [timers, timeout, nextTimer]
DebounceOp(ts, handle, next, args) ==
    [timers |-> ClearTimeout(ts, handle)
                   \cup {[id |-> next, left |-> WAIT, fn |-> "debounce", args |-> args]},
     timeout |-> next, nextTimer |-> next + 1]

\* the function throttle returns (executedFunction): [timers, timeout, nextTimer];
\* timer ids are positive, so !timeout holds exactly when no id is stored
ThrottleOp(ts, handle, next, args) ==
    IF handle = 0
    THEN [timers |-> ts \cup {[id |-> next, left |-> WAIT, fn |-> "throttle", args |-> args]},
          timeout |-> next, nextTimer |-> next + 1]
    ELSE [timers |-> ts, timeout |-> handle, nextTimer |-> next]

\* a call of the debounced function with argument args
DebouncedCall(args) ==
    /\ Len(trace) < MaxEvents
    /\ LET r == DebounceOp(wrapTimers, debounceTimeout, nextWrapTimer, args)
       IN  /\ wrapTimers' = r.timers
           /\ debounceTimeout' = r.timeout
           /\ nextWrapTimer' = r.nextTimer
    /\ trace' = Append(trace, [ev |-> "call", fn |-> "debounce", args |-> args])
    /\ UNCHANGED <<currentLayout, currentAspectRatio, cells, isPlaying, playToggleText,
                   isExtended, tags, dragSource, dropped, nextBlob, emptySrcResolves,
                   dropdown, clicked, throttleTimeout, navVars>>

\* a call of the throttled function with argument args
ThrottledCall(args) ==
    /\ Len(trace) < MaxEvents
    /\ LET r == ThrottleOp(wrapTimers, throttleTimeout, nextWrapTimer, args)
       IN  /\ wrapTimers' = r.timers
           /\ throttleTimeout' = r.timeout
           /\ nextWrapTimer' = r.nextTimer
    /\ trace' = Append(trace, [ev |-> "call", fn |-> "throttle", args |-> args])
    /\ UNCHANGED <<currentLayout, currentAspectRatio, cells, isPlaying, playToggleText,
                   isExtended, tags, dragSource, dropped, nextBlob, emptySrcResolves,
                   dropdown, clicked, debounceTimeout, navVars>>

\* time passes while no pending timer of the wrappers is due
WrapAdvance ==
    /\ wrapTimers # {}
    /\ \A t \in wrapTimers : t.left > 0
    /\ wrapTimers' = {[t EXCEPT !.left = IF @ > WaitTickMs THEN @ - WaitTickMs ELSE 0] :
                         t \in wrapTimers}
    /\ UNCHANGED <<currentLayout, currentAspectRatio, cells, isPlaying, playToggleText,
                   isExtended, tags, dragSource, dropped, nextBlob, emptySrcResolves,
                   dropdown, clicked, debounceTimeout, throttleTimeout, nextWrapTimer,
                   trace, navVars>>

\* a due timer of the debounced function fires, the oldest due timer first (later):
\* clearTimeout(timeout), then func(...args) with the arguments of the call that set it
DebounceFire(id) ==
    /\ \E t \in Pending("debounce") :
          /\ t.id = id /\ t.left = 0
          /\ \A u \in wrapTimers : u.left = 0 => u.id >= id
          /\ wrapTimers' = ClearTimeout(wrapTimers \ {t}, debounceTimeout)
          /\ trace' = Append(trace, [ev |-> "func", fn |-> "debounce", args |-> t.args])
    /\ UNCHANGED <<currentLayout, currentAspectRatio, cells, isPlaying, playToggleText,
                   isExtended, tags, dragSource, dropped, nextBlob, emptySrcResolves,
                   dropdown, clicked, debounceTimeout, throttleTimeout, nextWrapTimer,
                   navVars>>

\* the due timer of the throttled function fires: timeout = null, then func(...args)
ThrottleFire(id) ==
    /\ \E t \in Pending("throttle") :
          /\ t.id = id /\ t.left = 0
          /\ \A u \in wrapTimers : u.left = 0 => u.id >= id
          /\ wrapTimers' = wrapTimers \ {t}
          /\ trace' = Append(trace, [ev |-> "func", fn |-> "throttle", args |-> t.args])
    /\ throttleTimeout' = 0
    /\ UNCHANGED <<currentLayout, currentAspectRatio, cells, isPlaying, playToggleText,
                   isExtended, tags, dragSource, dropped, nextBlob, emptySrcResolves,
                   dropdown, clicked, debounceTimeout, nextWrapTimer, navVars>>

\* the VideoGrid constructor: both wrappers are built, neither has been called
WrapInit ==
    /\ debounceTimeout = 0
    /\ throttleTimeout = 0
    /\ wrapTimers = {}
    /\ nextWrapTimer = 1
    /\ trace = <<>>

(* --------------------------- specification ----------------------------- *)
Init ==
    /\ currentLayout = DefaultLayout
    /\ currentAspectRatio = DefaultAspectRatio
    /\ cells = SetupDragAndDrop(InitGrid(DefaultLayout, DefaultAspectRatio))
    /\ isPlaying = FALSE
    /\ playToggleText = "play"
    /\ isExtended = FALSE
    /\ tags = <<>>
    /\ dragSource = 0
    /\ dropped = FALSE
    /\ nextBlob = 0
    /\ emptySrcResolves \in BOOLEAN
    /\ dropdown = UpdateDropdown(<<>>)
    /\ clicked = NoTag
    /\ NavbarInit
    /\ WrapInit

\* The handlers are checked in groups; each specification runs the handlers of one
\* group from the state the constructors leave.

\* loading single files, playing and swapping, on the grid of the default layout
Next ==
    \/ \E i \in 1..Len(cells), files \in OneFile : PickFiles(i, files)
    \/ \E i \in 1..Len(cells), files \in OneFile : FileDrop(i, files)
    \/ TogglePlayAll
    \/ \E i \in 1..Len(cells) : Tick(i)
    \/ \E a \in 1..Len(cells) : DragStart(a)
    \/ \E b \in 1..Len(cells) : Drop(b)
    \/ DragEnd

Spec == Init /\ [][Next]_vars

\* loading single files, tagging and swapping
NextSwapTags ==
    \/ \E i \in 1..Len(cells), files \in OneFile : PickFiles(i, files)
    \/ \E a \in 1..Len(cells) : DragStart(a)
    \/ \E b \in 1..Len(cells) : Drop(b)
    \/ DragEnd
    \/ \E i \in 1..Len(cells), name \in TagNames : CreateNewTag(i, name, 0)

SpecSwapTags == Init /\ [][NextSwapTags]_vars

\* the groups that start here either assign src="" nowhere or are checked for
\* properties of the tag registry, the navbar or the wrappers, which do not depend
\* on how the browser reads src="" back
InitPlain == Init /\ ~emptySrcResolves

\* loading single files, tagging, and switching layout and aspect ratio
NextLayout ==
    \/ \E i \in 1..Len(cells), files \in OneFile : PickFiles(i, files)
    \/ \E i \in 1..Len(cells), files \in OneFile : FileDrop(i, files)
    \/ ToggleLayout
    \/ ToggleAspectRatio
    \/ \E i \in 1..Len(cells), name \in TagNames : CreateNewTag(i, name, 0)

SpecLayout == InitPlain /\ [][NextLayout]_vars

\* loading batches of every kind of file, in both layouts
NextLoad ==
    \/ \E i \in 1..Len(cells), files \in Batches : PickFiles(i, files)
    \/ \E i \in 1..Len(cells), files \in Batches : FileDrop(i, files)
    \/ ToggleLayout

SpecLoad == InitPlain /\ [][NextLoad]_vars

\* the tag registry, tagging and filtering
NextTags ==
    \/ \E i \in 1..Len(cells), files \in OneFile : PickFiles(i, files)
    \/ \E i \in 1..Len(cells), name \in TagNames, hue \in Hues : CreateNewTag(i, name, hue)
    \/ \E i \in 1..Len(cells), name \in TagNames : PickTag(i, name)
    \/ \E name \in TagNames, hue \in Hues : AddTagCall(name, hue)
    \/ \E name \in TagNames : DeleteTagCall(name)
    \/ \E tag \in TagNames \cup {All} : FilterVideosCall(tag)

SpecTags == InitPlain /\ [][NextTags]_vars


\* loading single files, playing, and switching layout and aspect ratio
NextLayoutPlay ==
    \/ \E i \in 1..Len(cells), files \in OneFile : PickFiles(i, files)
    \/ TogglePlayAll
    \/ \E i \in 1..Len(cells) : Tick(i)
    \/ ToggleLayout
    \/ ToggleAspectRatio

SpecLayoutPlay == InitPlain /\ [][NextLayoutPlay]_vars

\* every operation on the grid next to the tag registry's own, the user acting on
\* the first MaxFrameCell cells
FrameCells == 1..MaxFrameCell

NextFrame ==
    \/ \E i \in FrameCells, files \in OneFile : PickFiles(i, files)
    \/ TogglePlayAll
    \/ \E a \in FrameCells : DragStart(a)
    \/ \E b \in FrameCells : Drop(b)
    \/ DragEnd
    \/ ToggleLayout
    \/ ToggleAspectRatio
    \/ \E i \in FrameCells, name \in TagNames, hue \in Hues : CreateNewTag(i, name, hue)
    \/ \E i \in FrameCells, name \in TagNames : PickTag(i, name)
    \/ \E name \in TagNames : DeleteTagCall(name)
    \/ \E tag \in TagNames \cup {All} : FilterVideosCall(tag)

SpecFrame == InitPlain /\ [][NextFrame]_vars

\* loading batches next to tagged cells
NextLoadTags ==
    \/ \E i \in 1..Len(cells), files \in QuietBatches : PickFiles(i, files)
    \/ \E i \in 1..Len(cells), files \in QuietBatches : FileDrop(i, files)
    \/ \E i \in 1..Len(cells), name \in TagNames : CreateNewTag(i, name, 0)

SpecLoadTags == InitPlain /\ [][NextLoadTags]_vars

\* batches of valid files and layout changes, until the grid holds more videos
\* than a layout has cells
NextGrow ==
    \/ \E i \in 1..Len(cells), files \in ValidBatches : PickFilesMore(i, files)
    \/ \E i \in 1..Len(cells), files \in ValidBatches : FileDropMore(i, files)
    \/ ToggleLayout
    \/ ToggleAspectRatio

SpecGrow == InitPlain /\ [][NextGrow]_vars

\* loading single files and dragging cells, with the marks the drag events set
NextDrag ==
    \/ \E i \in 1..Len(cells), files \in OneFile : PickFiles(i, files)
    \/ \E a \in 1..Len(cells) : DragStart(a)
    \/ \E b \in 1..Len(cells) : DragOver(b)
    \/ \E b \in 1..Len(cells) : DragLeave(b)
    \/ \E b \in 1..Len(cells) : Drop(b)
    \/ \E b \in 1..Len(cells) : ForeignDrop(b)
    \/ DragEnd

SpecDrag == Init /\ [][NextDrag]_vars

\* the tag registry and the navbar's dropdown
NextDropdown ==
    \/ \E i \in 1..Len(cells), name \in TagNames : CreateNewTag(i, name, 0)
    \/ \E name \in TagNames, hue \in Hues : AddTagCall(name, hue)
    \/ \E name \in TagNames : DeleteTagCall(name)
    \/ \E k \in 1..Cardinality(TagNames) : ClickDropdownOption(k)
    \/ \E tag \in TagNames \cup {All} : FilterVideosCall(tag)

SpecDropdown == InitPlain /\ [][NextDropdown]_vars

\* tagging through the cells' tag menus, deleting tags, swapping and layout changes,
\* the user acting on the first MaxFrameCell cells
NextMenu ==
    \/ \E i \in FrameCells, files \in OneFile : PickFiles(i, files)
    \/ \E i \in FrameCells, name \in TagNames : CreateNewTag(i, name, 0)
    \/ \E i \in FrameCells : ShowTagMenu(i)
    \/ \E i \in FrameCells, k \in 1..Cardinality(TagNames) : ClickMenuOption(i, k)
    \/ \E i \in FrameCells : CloseTagMenu(i)
    \/ \E name \in TagNames : DeleteTagCall(name)
    \/ \E a \in FrameCells : DragStart(a)
    \/ \E b \in FrameCells : Drop(b)
    \/ DragEnd
    \/ ToggleLayout
    \/ ToggleAspectRatio

SpecMenu == InitPlain /\ [][NextMenu]_vars

\* loading single files, swapping, layout changes and releasing the videos, in
\* both readings of video.src with src="", the user acting on the first
\* MaxFrameCell cells
NextRelease ==
    \/ \E i \in FrameCells, files \in OneFile : PickFiles(i, files)
    \/ \E a \in FrameCells : DragStart(a)
    \/ \E b \in FrameCells : Drop(b)
    \/ DragEnd
    \/ ToggleLayout
    \/ ToggleAspectRatio
    \/ ReleaseVideoResources

SpecRelease == Init /\ [][NextRelease]_vars

\* loading single files, playing, swapping and layout changes, the user acting on
\* the first MaxFrameCell cells
NextPlaySync ==
    \/ \E i \in FrameCells, files \in OneFile : PickFiles(i, files)
    \/ \E i \in FrameCells, files \in OneFile : FileDrop(i, files)
    \/ TogglePlayAll
    \/ \E i \in FrameCells : Tick(i)
    \/ \E a \in FrameCells : DragStart(a)
    \/ \E b \in FrameCells : Drop(b)
    \/ DragEnd
    \/ ToggleLayout
    \/ ToggleAspectRatio

SpecPlaySync == Init /\ [][NextPlaySync]_vars

\* the navbar's auto-hide: mousemove events, the clock and the timers
NextNavbar ==
    \/ \E y \in PointerYs : MouseMove(y)
    \/ Advance
    \/ \E id \in 1..(MaxTimers + 1) : Fire(id)

SpecNavbar == InitPlain /\ [][NextNavbar]_vars

\* the browser lets time pass and runs every timer that is due
FairSpecNavbar ==
    SpecNavbar /\ WF_vars(Advance) /\ WF_vars(\E id \in 1..(MaxTimers + 1) : Fire(id))

\* the debounced and the throttled function called at any time, the clock and the
\* timers they set
NextWrap ==
    \/ \E args \in Args : DebouncedCall(args)
    \/ \E args \in Args : ThrottledCall(args)
    \/ WrapAdvance
    \/ \E id \in 1..MaxEvents : DebounceFire(id)
    \/ \E id \in 1..MaxEvents : ThrottleFire(id)

SpecWrap == InitPlain /\ [][NextWrap]_vars

\* the browser lets time pass and runs every timer that is due
FairSpecWrap ==
    /\ SpecWrap
    /\ WF_vars(WrapAdvance)
    /\ WF_vars(\E id \in 1..MaxEvents : DebounceFire(id))
    /\ WF_vars(\E id \in 1..MaxEvents : ThrottleFire(id))

(* ------------------------------ claims --------------------------------- *)
\* a file passes validation: a supported type and at most 100 MB
Valid(f) == f.type \in {"video/mp4", "video/webm", "video/ogg"} /\ f.size <= MAX_FILE_SIZE

\* the cell holds a video
HoldsVideo(c) == ~c.isEmpty /\ c.src \in Blobs

\* the cells of cs that hold a video
Loaded(cs) == {i \in 1..Len(cs) : HoldsVideo(cs[i])}

\* this step is the call addMultipleVideos(files, cell i), made by either handler
LoadStep(i, files) == PickFiles(i, files) \/ FileDrop(i, files)

\* the files of a batch that pass validation
ValidIn(files) == {k \in 1..Len(files) : Valid(files[k])}

\* C1: for any batch passed to addMultipleVideos with an empty start cell, every
\* file of the batch that passes validation is loaded into a cell, whichever other
\* files of the batch fail validation and wherever they sit in the batch: the grid
\* holds one more video for each of them
C1_ValidFilesLoaded ==
    [][\A i \in 1..Len(cells), files \in Batches :
          (LoadStep(i, files) /\ cells[i].isEmpty) =>
              /\ Loaded(cells) \subseteq Loaded(cells')
              /\ Cardinality(Loaded(cells') \ Loaded(cells)) = Cardinality(ValidIn(files))]_vars

\* C2: addVideoToCell called with a file that fails validation never raises an error
\* to its caller: the error is caught and handed to showErrorMessage, and the target
\* cell stays empty with no source
C2_InvalidFileCaught ==
    [][\A i \in 1..Len(cells), files \in Batches :
          LoadStep(i, files) =>
              LET r == LoadCall(i, files)
              IN  \A j \in 1..Len(r.calls) :
                      ~Valid(files[r.calls[j].file]) =>
                          /\ ~r.calls[j].threw
                          /\ r.calls[j].caught
                          /\ cells'[r.calls[j].cell].isEmpty
                          /\ cells'[r.calls[j].cell].src = NoAttr]_vars

\* the empty cells of cs from cell i onward
EmptyFrom(cs, i) == Cardinality({j \in i..Len(cs) : cs[j].isEmpty})

\* C4: when addMultipleVideos receives N valid files at an empty start cell and N
\* exceeds the empty cells from that cell onward, the extension adds the fewest full
\* rows that leave at least N empty cells from the start cell onward, and no more
C4_FewestFullRows ==
    [][\A i \in 1..Len(cells), files \in Batches :
          (/\ LoadStep(i, files)
           /\ cells[i].isEmpty
           /\ ValidIn(files) = 1..Len(files)
           /\ Len(files) > EmptyFrom(cells, i)) =>
              LET columns == LayoutConfig(currentLayout, currentAspectRatio).columns
                  missing == Len(files) - EmptyFrom(cells, i)
              IN  Len(cells') = Len(cells) + Ceil(missing, columns) * columns]_vars

\* C3: toggleLayout and toggleAspectRatio preserve per-cell state: each cell that
\* holds a video before the toggle is found at the same index after it with the same
\* source and the same tag, so the number of loaded videos is the same
C3_TogglePreservesCells ==
    [][(ToggleLayout \/ ToggleAspectRatio) =>
          /\ \A i \in Loaded(cells) :
                /\ i \in Loaded(cells')
                /\ cells'[i].src = cells[i].src
                /\ cells'[i].tag = cells[i].tag
          /\ Cardinality(Loaded(cells')) = Cardinality(Loaded(cells))]_vars

\* the video a cell shows, 0 when it shows none
VideoOf(c) == IF c.src \in Blobs THEN c.src ELSE 0

\* the cells of cs that show video v
Showing(cs, v) == {j \in 1..Len(cs) : VideoOf(cs[j]) = v}

\* C5: when a dragged cell A holding a video is dropped onto a different cell B
\* (loaded or empty), A and B exchange video, empty flag and playback position, and
\* every other cell is unchanged; no video is lost or duplicated
C5_DropExchanges ==
    [][\A b \in 1..Len(cells) :
          (Drop(b) /\ b # dragSource /\ HoldsVideo(cells[dragSource])) =>
              LET a == dragSource
              IN  /\ Len(cells') = Len(cells)
                  /\ VideoOf(cells'[a]) = VideoOf(cells[b])
                  /\ VideoOf(cells'[b]) = VideoOf(cells[a])
                  /\ cells'[a].isEmpty = cells[b].isEmpty
                  /\ cells'[b].isEmpty = cells[a].isEmpty
                  /\ cells'[a].currentTime = cells[b].currentTime
                  /\ cells'[b].currentTime = cells[a].currentTime
                  /\ \A j \in 1..Len(cells) \ {a, b} : cells'[j] = cells[j]
                  /\ \A v \in Blobs :
                        Cardinality(Showing(cells', v)) = Cardinality(Showing(cells, v))]_vars

\* a video that had played on was dragged onto an empty cell and dropped there
C5_Witness ==
    /\ dropped /\ dragSource # 0 /\ ~emptySrcResolves
    /\ cells[dragSource].isEmpty
    /\ \E b \in 1..Len(cells) :
          b # dragSource /\ HoldsVideo(cells[b]) /\ cells[b].currentTime = MaxTime

\* C6: when a dragged cell A is dropped onto a different cell B, the two cells
\* exchange their tags: afterwards A carries exactly the tag B had (none if B had
\* none) and B carries exactly the tag A had (none if A had none)
C6_DropExchangesTags ==
    [][\A b \in 1..Len(cells) :
          (Drop(b) /\ b # dragSource) =>
              /\ cells'[dragSource].tag = cells[b].tag
              /\ cells'[b].tag = cells[dragSource].tag]_vars

\* C7: togglePlayAll flips the global playing flag and returns the new value (the
\* button text shows it), and right afterwards every cell that holds a video is
\* playing if the flag is true and paused if it is false
C7_TogglePlayAll ==
    [][TogglePlayAll =>
          /\ isPlaying' = ~isPlaying
          /\ playToggleText' = IF isPlaying' THEN "pause" ELSE "play"
          /\ \A i \in Loaded(cells') : cells'[i].paused = ~isPlaying']_vars

\* the flag is on, the button offers to pause, and a loaded video is playing
C7_Witness ==
    /\ isPlaying /\ playToggleText = "pause"
    /\ \E i \in Loaded(cells) : ~cells[i].paused

\* C8: after deleteTag(t), t is no longer a key of the registry and no cell carries
\* tag t; every cell that carried a different tag still carries it, and every other
\* registry entry is unchanged
C8_DeleteTagCascades ==
    [][\A t \in TagNames :
          DeleteTagCall(t) =>
              /\ ~Has(tags', t)
              /\ Len(cells') = Len(cells)
              /\ \A i \in 1..Len(cells) :
                    /\ cells'[i].tag # t
                    /\ cells[i].tag # t => cells'[i].tag = cells[i].tag
              /\ tags' = Delete(tags, t)]_vars

\* C9: addTag(name) is create-or-get: for a name in the registry it returns the
\* stored color and changes neither the entries nor their order; for a new name it
\* appends exactly one entry at the end.  Names stay unique keys, and a tag's color
\* never changes while the tag exists
C9_AddTagCreateOrGet ==
    /\ [](/\ \A j, k \in 1..Len(tags) : tags[j].name = tags[k].name => j = k
          /\ \A n \in Names(tags), h \in Hues :
                AddTag(tags, n, h) = [tags |-> tags, ret |-> Get(tags, n)])
    /\ [][/\ \A n \in TagNames, h \in Hues :
                (AddTagCall(n, h) /\ ~Has(tags, n)) =>
                    /\ Len(tags') = Len(tags) + 1
                    /\ SubSeq(tags', 1, Len(tags)) = tags
                    /\ tags'[Len(tags')].name = n
                    /\ tags'[Len(tags')].color = AddTag(tags, n, h).ret
          /\ \A n \in Names(tags) \cap Names(tags') : Get(tags', n) = Get(tags, n)]_vars

\* both names are registered, in either hue
C9_Witness == Len(tags) = 2 /\ tags[1].color # tags[2].color

\* C10: after filterVideos(t) with t other than the sentinel 'all', a cell is
\* visible exactly when its tag equals t; after filterVideos('all') every cell is
\* visible.  filterVideos changes no cell's source, tag or empty flag and no
\* registry entry
C10_FilterVideos ==
    [][\A t \in TagNames \cup {All} :
          FilterVideosCall(t) =>
              /\ Len(cells') = Len(cells)
              /\ \A i \in 1..Len(cells) :
                    /\ cells'[i].visible = (t = All \/ cells[i].tag = t)
                    /\ cells'[i].src = cells[i].src
                    /\ cells'[i].tag = cells[i].tag
                    /\ cells'[i].isEmpty = cells[i].isEmpty
              /\ tags' = tags]_vars

\* a filter hides a loaded cell and shows a tagged one
C10_Witness ==
    \E i, j \in 1..Len(cells) :
        /\ ~cells[i].visible /\ HoldsVideo(cells[i])
        /\ cells[j].visible /\ cells[j].tag # NoTag

\* the most recent mousemove was inside / outside the proximity zone
Inside == lastY # NoMove /\ lastY < PROXIMITY
Outside == lastY >= PROXIMITY

\* the timers the mousemove handler started that are still pending
MoveTimers == {t \in timers : t.id # LoadTimer}

\* C11: the navbar is either visible or hidden, and whenever the most recent
\* mousemove was inside the proximity zone the navbar is visible, in every state
\* reached from page load by mousemove events and timer firings
C11_VisibleNearTop == navHidden \in BOOLEAN /\ (Inside => ~navHidden)

\* C12: once the most recent mousemove was outside the zone, unless another mousemove
\* follows, the timer that mousemove started fires and the navbar is hidden; a hidden
\* navbar is shown again only by a mousemove inside the zone; and at most one timer
\* started by a mousemove is pending at any time
C12_HideTimer ==
    /\ \A n \in 2..(MaxTimers + 1) :
          (Outside /\ nextTimer = n) ~>
              \/ navHidden /\ \A t \in timers : t.id # n - 1
              \/ nextTimer # n
              \/ Inside
    /\ [][(navHidden /\ ~navHidden') =>
             \E y \in PointerYs : y < PROXIMITY /\ MouseMove(y)]_vars
    /\ [](Cardinality(MoveTimers) <= 1)

\* the pointer left the zone, its timer fired and hid the navbar, and nothing is pending
C12_Witness ==
    /\ navHidden /\ Outside
    /\ timers = {}
    /\ timeout = nextTimer - 1 /\ timeout > LoadTimer + 1

\* C13: a layout change preserves playback: a video that is playing before
\* toggleLayout or toggleAspectRatio is playing after it, and each loaded video's
\* playback position is the same after the toggle as before (for the cells the
\* toggle keeps)
C13_TogglePreservesPlayback ==
    [][(ToggleLayout \/ ToggleAspectRatio) =>
          \A i \in Loaded(cells) \cap Loaded(cells') :
              /\ ~cells[i].paused => ~cells'[i].paused
              /\ cells'[i].currentTime = cells[i].currentTime]_vars

\* C14: a tag is never deleted automatically: a step of any operation other than
\* deleteTag (loading, swapping, toggling layout or aspect ratio, filtering,
\* applying a tag, creating a tag, toggling play) keeps every registry entry, with
\* its color, at its place in the insertion order
C14_OnlyDeleteTagRemoves ==
    [][(~\E t \in TagNames : DeleteTagCall(t)) =>
          /\ Len(tags') >= Len(tags)
          /\ \A k \in 1..Len(tags) : tags'[k] = tags[k]]_vars

\* two tags are registered while the grid, rebuilt in the other layout, plays a
\* tagged video that a swap moved and a filter hides an untagged cell
C14_Witness ==
    /\ Len(tags) = 2
    /\ currentLayout = "3x3" /\ isPlaying
    /\ \E i \in 1..Len(cells) :
          HoldsVideo(cells[i]) /\ cells[i].tag # NoTag /\ cells[i].src # i
    /\ \E j \in 1..Len(cells) : ~cells[j].visible

\* C15: after addMultipleVideos(files, startCell) in which every file is valid, the
\* number of cells holding a video has grown by exactly the number of files, for
\* any cell of the grid as start cell (the cell whose add button was clicked or onto
\* which the files were dropped)
C15_AllValidLoaded ==
    [][\A i \in 1..Len(cells), files \in Batches :
          (LoadStep(i, files) /\ ValidIn(files) = 1..Len(files)) =>
              Cardinality(Loaded(cells')) = Cardinality(Loaded(cells)) + Len(files)]_vars

\* the addVideoToCell calls of a batch that set a video
Placed(calls) == {k \in 1..Len(calls) : ~calls[k].threw /\ ~calls[k].caught}

\* C16: files are loaded into empty cells only: in every reachable state, for every
\* cell whose add button can be clicked or that takes a drop and for every batch,
\* addMultipleVideos changes neither the source, the tag nor the empty flag of a cell
\* that holds a video, and places no two files of the batch in the same cell
C16_LoadsIntoEmptyCells ==
    \A i \in 1..Len(cells), files \in QuietBatches :
        (CanPick(i) \/ CanDrop(i)) =>
            LET r == LoadCall(i, files)
                calls == r.calls
            IN  /\ \A j \in Loaded(cells) :
                      /\ r.cells[j].src = cells[j].src
                      /\ r.cells[j].tag = cells[j].tag
                      /\ r.cells[j].isEmpty = cells[j].isEmpty
                /\ \A k \in Placed(calls) :
                      calls[k].cell <= Len(cells) => cells[calls[k].cell].isEmpty
                /\ \A k1, k2 \in Placed(calls) :
                      calls[k1].cell = calls[k2].cell => k1 = k2

\* a batch went into the cells after a tagged video, skipping over it and growing
\* the grid
C16_Witness ==
    /\ isExtended
    /\ \E j \in 1..Len(cells) :
          /\ HoldsVideo(cells[j]) /\ cells[j].tag # NoTag /\ cells[j].src = 1
          /\ \E a, b \in 1..Len(cells) :
                a < j /\ j < b /\ HoldsVideo(cells[a]) /\ HoldsVideo(cells[b])

\* C17: the grid always consists of full rows: after any sequence of file loads,
\* layout toggles and aspect-ratio toggles the number of cells is a multiple of the
\* column count of the current configuration and at least its base cell count
C17_FullRows ==
    LET layoutConfig == LayoutConfig(currentLayout, currentAspectRatio)
    IN  /\ Len(cells) % layoutConfig.columns = 0
        /\ Len(cells) >= layoutConfig.cells

\* a layout change found more videos than the 2x2 layout has cells and rebuilt the
\* grid with a third row
C17_Witness ==
    /\ currentLayout = "2x2" /\ currentAspectRatio = "9:16"
    /\ Len(cells) = 6
    /\ Cardinality(Loaded(cells)) = 5
    /\ \A i \in 1..Len(cells) : cells[i].drops = 1

\* what a cell shows and carries, apart from the drag marks
VideoState(c) ==
    [src |-> c.src, isEmpty |-> c.isEmpty, tag |-> c.tag, paused |-> c.paused,
     currentTime |-> c.currentTime]

\* C18: a swap happens only within a drag that started on a cell holding a video:
\* dragstart on an empty cell is cancelled and records no drag source; a drop onto
\* the drag source itself, or with no recorded drag source, changes no cell's state;
\* a drop swaps only when the recorded drag source holds a video; dragend clears the
\* drag source, and after dragend no cell carries the 'dragging' or 'dragover' mark
C18_SwapOnlyWithinDrag ==
    [][/\ \A a \in 1..Len(cells) :
             (DragStart(a) /\ cells[a].isEmpty) => dragSource' = 0
       /\ \A b \in 1..Len(cells) :
             ((Drop(b) /\ b = dragSource) \/ ForeignDrop(b)) =>
                 \A j \in 1..Len(cells) : VideoState(cells'[j]) = VideoState(cells[j])
       /\ \A b \in 1..Len(cells) :
             (Drop(b) /\ b # dragSource) => HoldsVideo(cells[dragSource])
       /\ DragEnd =>
             /\ dragSource' = 0
             /\ \A j \in 1..Len(cells') : ~cells'[j].dragging /\ ~cells'[j].dragover]_vars

\* C19: clicking a tag's entry in the navbar dropdown filters the grid by that tag:
\* the click completes without error and afterwards exactly the cells carrying the
\* tag are visible; and the dropdown lists exactly the registry's tags, in insertion
\* order, after every addTag and deleteTag
C19_DropdownFilters ==
    /\ [](/\ Len(dropdown) = Len(tags)
          /\ \A k \in 1..Len(tags) : dropdown[k] = tags[k].name)
    /\ [][\A k \in 1..Len(dropdown) :
             ClickDropdownOption(k) =>
                 /\ ~FilterByTagClick(cells, dropdown[k]).threw
                 /\ \A i \in 1..Len(cells') :
                       cells'[i].visible = (cells'[i].tag = dropdown[k])]_vars

\* C20: every tag carried by a cell is a key of the tag registry, in every state
\* reachable by createNewTag, opening a cell's tag menu, clicking an option of an
\* open tag menu, deleteTag, drag-swap and layout/aspect toggles
C20_CellTagsRegistered ==
    \A i \in 1..Len(cells) : cells[i].tag # NoTag => Has(tags, cells[i].tag)

\* C21: a cell is marked empty exactly when it has no video source, in every state
\* reachable by loading files, drag-swap, toggleLayout, toggleAspectRatio and
\* releaseVideoResources
C21_EmptyIffNoSource ==
    \A i \in 1..Len(cells) : cells[i].isEmpty <=> cells[i].src \notin Blobs

\* C22: play/pause stays synchronized with the global flag: in every state reachable
\* by togglePlayAll, file loads, drag-swaps and layout/aspect toggles, every cell
\* holding a video is playing when isPlaying is true and paused when it is false
C22_PlaySynchronized ==
    \A i \in 1..Len(cells) : HoldsVideo(cells[i]) => (cells[i].paused <=> ~isPlaying)

\* C23: after any sequence of file loads and layout/aspect toggles, isExtended is
\* true exactly when the grid has more cells than the base cell count of the current
\* (layout, aspect ratio) configuration
C23_ExtendedIffMoreCells ==
    isExtended <=> Len(cells) > LayoutConfig(currentLayout, currentAspectRatio).cells

\* C24: every cell currently in the grid accepts an external file drop, cells
\* appended by extendGrid during a file load and cells created by a layout or aspect
\* toggle included, and reacts to one drop exactly once: each cell has exactly one
\* drop listener calling addMultipleVideos
C24_EveryCellTakesDrops ==
    \A i \in 1..Len(cells) : cells[i].drops = 1

\* the list of empty cells addMultipleVideos loads into: the empty cells of cs, then
\* the n cells it appended
EmptyList(cs, n) == EmptyCells(cs) \o [k \in 1..n |-> Len(cs) + k]

\* C25: within one addMultipleVideos batch a rejected file does not use up a cell:
\* the accepted files occupy consecutive entries of the list of empty cells, starting
\* at the start cell and in batch order, with no empty cell left between two cells
\* filled by the same batch
C25_RejectedUsesNoCell ==
    [][\A i \in 1..Len(cells), files \in Batches :
          LoadStep(i, files) =>
              LET r == LoadCall(i, files)
                  emptyCells == EmptyList(cells, Len(cells') - Len(cells))
                  idx == IndexOf(EmptyCells(cells), i)
                  placed == SelectSeq(r.calls, LAMBDA c : ~c.threw /\ ~c.caught)
              IN  \A k \in 1..Len(placed) : placed[k].cell = emptyCells[idx + k]]_vars

\* the calls of wrapper fn and the invocations of its func, in order
TraceOf(fn) == SelectSeq(trace, LAMBDA e : e.fn = fn)

\* C26: the function debounce returns overwrites its pending delayed callback on
\* every call: at most one of its timers is pending at any time; func is invoked only
\* right after the last call of a burst and with that call's arguments, and once per
\* burst: unless another call follows, the last call is followed by one invocation;
\* the function throttle returns starts no new timer while one is pending
C26_DebounceThrottle ==
    /\ [](Cardinality(Pending("debounce")) <= 1)
    /\ [](LET d == TraceOf("debounce")
          IN  \A k \in 1..Len(d) :
                  d[k].ev = "func" =>
                      k > 1 /\ d[k - 1].ev = "call" /\ d[k - 1].args = d[k].args)
    /\ \A n \in 1..MaxEvents :
          (Len(TraceOf("debounce")) = n /\ TraceOf("debounce")[n].ev = "call")
              ~> (Len(TraceOf("debounce")) > n)
    /\ [][\A args \in Args :
             (ThrottledCall(args) /\ Pending("throttle") # {}) =>
                 wrapTimers' = wrapTimers /\ nextWrapTimer' = nextWrapTimer]_vars
    /\ [](Cardinality(Pending("throttle")) <= 1)

\* a burst of two debounced calls with different arguments ended in one invocation
\* of func with the second call's arguments, and the throttled function was called
\* a second time while its timer was pending
C26_Witness ==
    /\ TraceOf("debounce") = << [ev |-> "call", fn |-> "debounce", args |-> 1],
                                [ev |-> "call", fn |-> "debounce", args |-> 2],
                                [ev |-> "func", fn |-> "debounce", args |-> 2] >>
    /\ Len(TraceOf("throttle")) = 2
    /\ \A k \in 1..2 : TraceOf("throttle")[k].ev = "call"
    /\ Cardinality(Pending("throttle")) = 1
====
